---- MODULE Spec2Model ----
(***************************************************************************)
(* SignAi backend: POST /detect-image.                                     *)
(*                                                                         *)
(* The repository holds five revisions of the same request handler.  The   *)
(* variable `variant` says which one is deployed:                          *)
(*   "mcpPick"   src/server.js:101          (getImageSize gate, pickNumber)*)
(*   "mcpGate"   src/server.js:385          (detectImageType gate, && / ??)*)
(*   "rest"      src/unnamed/part_000:55    (REST call, no gate)           *)
(*   "selfFetch" src/unnamed/part_000:257   (sniffType gate, self-fetch)   *)
(*   "direct"    src/unnamed/part_001:27    (bytes posted to the detector) *)
(***************************************************************************)
EXTENDS Integers, Sequences, FiniteSets, TLC

(***************************************************************************)
(* JavaScript values.  Numbers are fixed point: ONE stands for 1.0, so     *)
(* 0.5 is ONE \div 2 and 87 is 87 * ONE.  Strings are sequences of tokens, *)
(* so that + is \o and "contains" is membership of a token.                *)
(***************************************************************************)
ONE == 100 * 100
HALF == ONE \div 2

Undef == [t |-> "undefined"]
Null == [t |-> "null"]
Bool(b) == [t |-> "boolean", b |-> b]
Num(n) == [t |-> "number", n |-> n]
Infinity == [t |-> "number", inf |-> TRUE]
Str(s) == [t |-> "string", s |-> s]
Obj(f) == [t |-> "object", f |-> f]
Arr(a) == [t |-> "array", a |-> a]

IsNumber(v) == v.t = "number"
IsFinite(v) == v.t = "number" /\ "n" \in DOMAIN v
IsBoolean(v) == v.t = "boolean"
IsString(v) == v.t = "string"
Nullish(v) == v.t \in {"undefined", "null"}

\* ToBoolean
Truthy(v) ==
  CASE v.t = "undefined" -> FALSE
    [] v.t = "null" -> FALSE
    [] v.t = "boolean" -> v.b
    [] v.t = "number" -> IF IsFinite(v) THEN v.n # 0 ELSE TRUE
    [] v.t = "string" -> v.s # <<>>
    [] OTHER -> TRUE

\* v.k for a value that is not null or undefined
Get(v, k) == IF v.t = "object" /\ k \in DOMAIN v.f THEN v.f[k] ELSE Undef
\* v?.k
OptGet(v, k) == IF Nullish(v) THEN Undef ELSE Get(v, k)
\* a || b, a ?? b
OrElse(a, b) == IF Truthy(a) THEN a ELSE b
Coalesce(a, b) == IF Nullish(a) THEN b ELSE a

\* String(v) as used by "..." + v
JsToString(v) ==
  CASE v.t = "string" -> v.s
    [] v.t = "undefined" -> <<"undefined">>
    [] v.t = "null" -> <<"null">>
    [] v.t = "boolean" -> IF v.b THEN <<"true">> ELSE <<"false">>
    [] v.t = "number" -> IF IsFinite(v) THEN <<ToString(v.n)>> ELSE <<"Infinity">>
    [] OTHER -> <<"[object Object]">>

\* x > 1 on a number or on false (false > 1 is false)
GreaterThanOne(v) ==
  IF v.t = "number" THEN (IF IsFinite(v) THEN v.n > ONE ELSE TRUE) ELSE FALSE

\* x / 100
DivideBy100(v) == IF IsFinite(v) THEN Num(v.n \div 100) ELSE v

\* What JSON.stringify puts on the wire for a value of a response field.
JsonWire(v) == IF v.t = "number" /\ ~IsFinite(v) THEN Null ELSE v

(***************************************************************************)
(* Buffers are sequences of bytes; offsets are zero based as in the code.  *)
(***************************************************************************)
At(buffer, i) == IF i < Len(buffer) THEN buffer[i + 1] ELSE -1
InRange(buffer, off, n) == off + n <= Len(buffer)
readUInt16BE(buffer, off) == buffer[off + 1] * 256 + buffer[off + 2]
readUInt32BE(buffer, off) ==
  ((buffer[off + 1] * 256 + buffer[off + 2]) * 256 + buffer[off + 3]) * 256
    + buffer[off + 4]

Zeros(n) == [i \in 1..n |-> 0]
BE16(x) == <<(x \div 256) % 256, x % 256>>
BE32(x) == <<(x \div (256 * 65536)) % 256, (x \div 65536) % 256>> \o BE16(x)

\* Format Sniffer, src/server.js:310
detectImageType(buffer) ==
  IF Len(buffer) < 16 THEN "null"
  ELSE IF At(buffer, 0) = 137 /\ At(buffer, 1) = 80 /\ At(buffer, 2) = 78
          /\ At(buffer, 3) = 71 THEN "png"
  ELSE IF At(buffer, 0) = 255 /\ At(buffer, 1) = 216 THEN "jpeg"
  ELSE IF At(buffer, 0) = 82 /\ At(buffer, 1) = 73 /\ At(buffer, 2) = 70
          /\ At(buffer, 3) = 70 /\ At(buffer, 8) = 87 /\ At(buffer, 9) = 69
          /\ At(buffer, 10) = 66 /\ At(buffer, 11) = 80 THEN "webp"
  ELSE "null"

\* Format Sniffer, src/unnamed/part_000:157
sniffType(buffer) ==
  IF Len(buffer) < 12 THEN "unknown"
  ELSE IF Len(buffer) > 8 /\ At(buffer, 0) = 137 /\ At(buffer, 1) = 80
          /\ At(buffer, 2) = 78 /\ At(buffer, 3) = 71 THEN "png"
  ELSE IF Len(buffer) > 3 /\ At(buffer, 0) = 255 /\ At(buffer, 1) = 216
    THEN "jpeg"
  ELSE IF Len(buffer) > 12 /\ At(buffer, 0) = 82 /\ At(buffer, 1) = 73
          /\ At(buffer, 2) = 70 /\ At(buffer, 3) = 70 /\ At(buffer, 8) = 87
          /\ At(buffer, 9) = 69 /\ At(buffer, 10) = 66 /\ At(buffer, 11) = 80
    THEN "webp"
  ELSE "unknown"

\* Results of the Dimension Extractor: dimensions, null, or a RangeError
\* raised by readUInt16BE on an offset past the end of the buffer.
Size(w, h, type) == [k |-> "size", width |-> w, height |-> h, type |-> type]
NullSize == [k |-> "null", width |-> 0, height |-> 0, type |-> ""]
RangeError == [k |-> "throw", width |-> 0, height |-> 0, type |-> ""]

\* The JPEG marker scan of getImageSize from offset i.
RECURSIVE JpegScan(_, _)
JpegScan(buffer, i) ==
  IF i >= Len(buffer) THEN NullSize
  ELSE IF At(buffer, i) # 255 THEN JpegScan(buffer, i + 1)
  ELSE IF ~InRange(buffer, i + 2, 2) THEN RangeError
  ELSE LET marker == At(buffer, i + 1)
           size == readUInt16BE(buffer, i + 2)
       IN IF marker = 192 \/ marker = 194
            THEN IF InRange(buffer, i + 5, 2) /\ InRange(buffer, i + 7, 2)
                   THEN Size(readUInt16BE(buffer, i + 7),
                             readUInt16BE(buffer, i + 5), "jpeg")
                   ELSE RangeError
            ELSE JpegScan(buffer, i + 2 + size)

JpegSize(buffer) ==
  IF Len(buffer) > 4 /\ At(buffer, 0) = 255 /\ At(buffer, 1) = 216
    THEN JpegScan(buffer, 2)
    ELSE NullSize

\* Dimension Extractor, src/server.js:346 (PNG recognised by four bytes)
getImageSize(buffer) ==
  IF Len(buffer) > 24 /\ At(buffer, 0) = 137 /\ At(buffer, 1) = 80
     /\ At(buffer, 2) = 78 /\ At(buffer, 3) = 71
    THEN Size(readUInt32BE(buffer, 16), readUInt32BE(buffer, 20), "png")
    ELSE JpegSize(buffer)

\* Dimension Extractor, src/server.js:59 and src/unnamed/part_000:194
\* (PNG recognised by its first two bytes only)
getImageSize2(buffer) ==
  IF Len(buffer) > 24 /\ At(buffer, 0) = 137 /\ At(buffer, 1) = 80
    THEN Size(readUInt32BE(buffer, 16), readUInt32BE(buffer, 20), "png")
    ELSE JpegSize(buffer)

(***************************************************************************)
(* Uploads.                                                                *)
(***************************************************************************)
PngSig == <<137, 80, 78, 71, 13, 10, 26, 10>>
IhdrHead == <<0, 0, 0, 13, 73, 72, 68, 82>>
PngFile(w, h) == PngSig \o IhdrHead \o BE32(w) \o BE32(h) \o <<8, 6, 0, 0, 0>>
\* a PNG cut after the IHDR chunk header: 16 bytes
PngCut == PngSig \o IhdrHead
\* not a PNG, but its first two bytes are 89 50
FakePng(w, h) == <<137, 80, 0, 0>> \o Zeros(12) \o BE32(w) \o BE32(h) \o Zeros(5)
App0 == <<255, 224, 0, 4, 0, 0>>
Eoi == <<255, 217>>
JpegFile(w, h) ==
  <<255, 216>> \o App0 \o <<255, 192, 0, 11, 8>> \o BE16(h) \o BE16(w)
    \o <<1, 1, 17, 0>> \o Eoi
\* JPEG signature, no FF byte after it
JpegNoMarker == <<255, 216>> \o Zeros(14)
\* JPEG without SOF0/SOF2, ending in the EOI marker FF D9
JpegNoSof == <<255, 216>> \o App0 \o Zeros(6) \o Eoi
\* JPEG whose first segment declares a length past the end of the buffer
JpegLongSegment == <<255, 216, 255, 224, 255, 255>> \o Zeros(10)
WebpFile == <<82, 73, 70, 70, 0, 0, 0, 0, 87, 69, 66, 80>> \o Zeros(18)
TextFile == [i \in 1..16 |-> 97]
TinyFile == <<137, 80, 78, 71>>

UploadBuffers ==
  { PngFile(256, 256), PngFile(100, 300), PngFile(300, 100), PngCut,
    FakePng(300, 300), JpegFile(256, 256), JpegFile(100, 100), JpegNoMarker,
    JpegNoSof, JpegLongSegment, WebpFile, TextFile, TinyFile }

(***************************************************************************)
(* Responses and errors.  A response is the status passed to res.status    *)
(* (200 when the code calls res.json directly) and the fields of the body; *)
(* a field the body does not have is Undef.                                *)
(***************************************************************************)
Resp(status, ai_score, label, version, raw) ==
  [status |-> status, ai_score |-> JsonWire(ai_score), label |-> JsonWire(label),
   version |-> version, raw |-> raw]

\* An exception reaching the handler's catch block: err.response.status and
\* err.response.data (0 and Undef when there is no response), err.code.
Err(status, data, code) == [status |-> status, data |-> data, code |-> code]
TypeError == Err(0, Undef, "")
BufferRangeError == Err(0, Undef, "ERR_OUT_OF_RANGE")
WriteError == Err(0, Undef, "ENOSPC")

Ret(resp) == [thrown |-> FALSE, resp |-> resp]
Throw(err) == [thrown |-> TRUE, err |-> err]

McpVersion == Str(<<"winston-ai-image-mcp">>)
BackendVersion == Str(<<"signai-backend">>)
ErrorRaw(code) == Obj([error |-> Str(<<code>>)])

\* pickNumber, src/server.js:93
RECURSIVE pickNumber(_)
pickNumber(vals) ==
  IF vals = <<>> THEN Null
  ELSE IF IsFinite(Head(vals)) THEN Head(vals)
  ELSE pickNumber(Tail(vals))

\* Label derivation, src/server.js:219 (the same statements are at
\* src/server.js:516 and src/unnamed/part_000:387)
deriveLabel(payload) ==
  LET l0 == OptGet(payload, "label")
      isAi == OptGet(payload, "is_ai")
      isHuman == OptGet(payload, "is_human")
      l1 == IF ~Truthy(l0) /\ IsBoolean(isAi)
              THEN (IF isAi.b THEN Str(<<"AI">>) ELSE Str(<<"Human">>))
              ELSE l0
      l2 == IF ~Truthy(l1) /\ IsBoolean(isHuman)
              THEN (IF isHuman.b THEN Str(<<"Human">>) ELSE Str(<<"AI">>))
              ELSE l1
  IN IF ~Truthy(l2) THEN Str(<<"Unknown">>) ELSE l2

deriveVersion(payload) ==
  OrElse(OrElse(OptGet(payload, "version"), OptGet(payload, "model")), McpVersion)

\* src/server.js:185-234: the handler after axios.post resolved with `data`
normalizePick(data) ==
  LET error == OptGet(data, "error") IN
  IF Truthy(error)
    THEN Resp(200, Num(HALF),
              Str(<<"Error from Winston: ">>
                    \o JsToString(OrElse(Get(error, "message"), Str(<<"unknown">>)))),
              McpVersion, data)
    ELSE
      LET result == Coalesce(OptGet(data, "result"), data)
          payload == Coalesce(Coalesce(Coalesce(OptGet(result, "content"),
                                                OptGet(result, "output")),
                                       result), data)
          picked == pickNumber(<<OptGet(payload, "ai_score"),
                                 OptGet(payload, "ai_probability"),
                                 OptGet(payload, "score"),
                                 OptGet(payload, "probability")>>)
          scaled == IF picked # Null /\ GreaterThanOne(picked)
                      THEN DivideBy100(picked) ELSE picked
          aiScore == IF scaled = Null THEN Num(HALF) ELSE scaled
      IN Resp(200, aiScore, deriveLabel(payload), deriveVersion(payload), data)

\* The first element x of an array with x?.type === "text", else undefined
FirstText(a) ==
  LET isText(i) == OptGet(a[i], "type") = Str(<<"text">>) IN
  IF \E i \in 1..Len(a) : isText(i)
    THEN a[CHOOSE i \in 1..Len(a) : isText(i) /\ \A j \in 1..(i - 1) : ~isText(j)]
    ELSE Undef

DebugRaw(data, debug) == Obj([winston |-> data, debug |-> debug])

\* src/server.js:486-531: the handler after axios.post resolved with `data`
normalizeGate(data, debug) ==
  LET content == OptGet(OptGet(data, "result"), "content") IN
  IF ~Nullish(content) /\ content.t # "array" THEN Throw(TypeError)
  ELSE
    LET maybeTextError ==
          IF Nullish(content) THEN Null
          ELSE OrElse(OptGet(FirstText(content.a), "text"), Null)
    IN
    IF Truthy(maybeTextError)
      THEN Ret(Resp(200, Num(HALF),
                    Str(<<"Winston error: ">> \o JsToString(maybeTextError)),
                    McpVersion, DebugRaw(data, debug)))
    ELSE IF Nullish(data) THEN Throw(TypeError)
    ELSE
      LET result == OrElse(Get(data, "result"), data)
          payload == OrElse(OrElse(OrElse(OptGet(result, "content"),
                                          OptGet(result, "output")),
                                   result), data)
          first == IF IsNumber(Get(payload, "ai_score"))
                     THEN Get(payload, "ai_score") ELSE Bool(FALSE)
          scaled == IF first # Null /\ GreaterThanOne(first)
                      THEN DivideBy100(first) ELSE first
          aiScore == IF scaled = Null THEN Num(HALF) ELSE scaled
      IN Ret(Resp(200, aiScore, deriveLabel(payload), deriveVersion(payload),
                  DebugRaw(data, debug)))

\* t.toLowerCase() on one token
Lower(tok) == IF tok = "There was an error" THEN "there was an error" ELSE tok
\* t.toLowerCase().indexOf(needle) !== -1
IndexOfLower(s, needle) == \E i \in 1..Len(s) : Lower(s[i]) = needle

\* src/unnamed/part_000:344-401: the handler after axios.post resolved
normalizeSelfFetch(data, debug) ==
  LET maybe == IF Truthy(data) /\ Truthy(Get(data, "result"))
                  /\ Truthy(Get(Get(data, "result"), "content"))
                 THEN Get(Get(data, "result"), "content") ELSE Null
      first == IF maybe.t = "array" /\ Len(maybe.a) > 0 THEN maybe.a[1] ELSE Undef
      winstonTextError ==
        IF maybe.t = "array" /\ Truthy(first)
           /\ Get(first, "type") = Str(<<"text">>)
           /\ IsString(Get(first, "text"))
           /\ IndexOfLower(Get(first, "text").s, "there was an error")
          THEN Get(first, "text") ELSE Null
  IN
  IF Truthy(data) /\ Truthy(Get(data, "error"))
    THEN Resp(200, Num(HALF),
              Str(<<"Winston error: ">>
                    \o JsToString(OptGet(Get(data, "error"), "message"))),
              McpVersion, DebugRaw(data, debug))
  ELSE IF Truthy(winstonTextError)
    THEN Resp(200, Num(HALF),
              Str(<<"Winston error: ">> \o JsToString(winstonTextError)),
              McpVersion, DebugRaw(data, debug))
  ELSE
    LET result == IF Truthy(data) /\ Truthy(Get(data, "result"))
                    THEN Get(data, "result") ELSE data
        inner == OrElse(OptGet(result, "content"), OptGet(result, "output"))
        payload == IF Truthy(result) /\ Truthy(inner) THEN inner ELSE result
        found == IF Truthy(payload) /\ IsNumber(Get(payload, "ai_score"))
                   THEN Get(payload, "ai_score")
                 ELSE IF Truthy(payload) /\ IsNumber(Get(payload, "ai_probability"))
                   THEN Get(payload, "ai_probability")
                 ELSE IF Truthy(payload) /\ IsNumber(Get(payload, "score"))
                   THEN Get(payload, "score")
                 ELSE Null
        scaled == IF found # Null /\ GreaterThanOne(found)
                    THEN DivideBy100(found) ELSE found
        aiScore == IF scaled = Null THEN Num(HALF) ELSE scaled
        safe == IF Truthy(payload) THEN payload ELSE Undef
    IN Resp(200, aiScore, deriveLabel(safe), deriveVersion(safe),
            DebugRaw(data, debug))

\* src/unnamed/part_000:72-92: the handler after callWinstonImageREST
normalizeRest(ok, status, data) ==
  IF ~ok
    THEN Resp(502, Num(HALF),
              Str(<<"Winston REST error: ", ToString(status)>>), Undef, data)
    ELSE
      LET aiScore == IF IsNumber(OptGet(data, "ai_probability"))
                       THEN OptGet(data, "ai_probability") ELSE Num(HALF)
          label == IF IsFinite(aiScore) /\ aiScore.n < HALF
                     THEN Str(<<"Human">>) ELSE Str(<<"AI">>)
      IN Resp(200, aiScore, label, Undef, data)

\* src/unnamed/part_001:42-50: the handler after axios.post resolved
normalizeDirect(data) ==
  IF Nullish(data) THEN Throw(TypeError)
  ELSE Ret(Resp(200,
                Coalesce(Coalesce(Get(data, "score"), Get(data, "ai_score")), Null),
                IF Truthy(Get(data, "is_ai")) THEN Str(<<"AI">>) ELSE Str(<<"Human">>),
                OrElse(Get(data, "model"), Str(<<"winston-ai">>)),
                data))

\* catch blocks: src/server.js:235 / 532, src/unnamed/part_000:402
catchMcp(err) ==
  Resp(200, Num(HALF),
       Str(<<"Error contacting Winston: ",
             IF err.status # 0 THEN ToString(err.status)
             ELSE IF err.code # "" THEN err.code ELSE "unknown">>),
       McpVersion,
       IF Truthy(err.data) THEN err.data ELSE Obj([message |-> Str(<<"message">>)]))
\* src/unnamed/part_000:93
catchRest(err) ==
  Resp(500, Num(HALF), Str(<<"Server error">>), Undef, Undef)
\* src/unnamed/part_001:51
catchDirect(err) ==
  Resp(500, Undef, Undef, Undef, Undef)

(***************************************************************************)
(* Inputs of a request and answers of the network.                         *)
(***************************************************************************)
Variants == {"mcpPick", "mcpGate", "rest", "selfFetch", "direct"}
Requests == {"r1", "r2"}

\* Date.now() takes the values 1..MaxNow; Math.random() and
\* crypto.randomBytes take the values 0..MaxRand-1.
MaxNow == 2
MaxRand == 2

NoFile == [present |-> FALSE, buffer |-> <<>>, originalname |-> <<>>]
File(buffer, originalname) ==
  [present |-> TRUE, buffer |-> buffer, originalname |-> originalname]
\* originalname as <<stem>> or <<stem, extension>>; <<>> is the empty name
OriginalNames == {<<>>, <<"x", ".txt">>}
\* path.extname
extname(name) == IF Len(name) >= 2 THEN name[Len(name)] ELSE ""

Files == {NoFile} \cup {File(b, n) : b \in UploadBuffers, n \in OriginalNames}
ConcFiles == {File(PngFile(256, 256), <<>>)}

\* the x-forwarded-proto header; "" when the header is absent
ForwardedProtos == {"", "http"}

Text(s) == Obj([type |-> Str(<<"text">>), text |-> Str(<<s>>)])
BadKey == Obj([message |-> Str(<<"bad key">>)])
EmptyBody == Str(<<>>)
Payloads ==
  { Obj(<<>>),
    Obj([error |-> BadKey]),
    Obj([error |-> BadKey, ai_score |-> Num((9 * ONE) \div 10), label |-> Str(<<"AI">>)]),
    Obj([error |-> BadKey, result |-> Obj([content |-> Arr(<<Text("fetched")>>)])]),
    Obj([ai_probability |-> Num(87 * ONE)]),
    Obj([ai_score |-> Num((9 * ONE) \div 10)]),
    Obj([score |-> Num(-3 * ONE)]),
    Obj([ai_score |-> Num(500 * ONE)]),
    Obj([ai_score |-> Infinity]),
    Obj([ai_score |-> Str(<<"0.9">>)]),
    Obj([result |-> Obj([content |-> Arr(<<Text("There was an error")>>)])]),
    Obj([result |-> Obj([output |-> Obj([ai_score |-> Num(ONE \div 5),
                                         is_ai |-> Bool(FALSE),
                                         model |-> Str(<<"m1">>)])])]),
    Obj([label |-> Str(<<"AI-generated">>), probability |-> Num((7 * ONE) \div 10)]),
    Obj([is_human |-> Bool(TRUE)]),
    Obj([result |-> Obj([content |-> Obj([ai_probability |-> Num(42 * ONE)])])]),
    Null,
    EmptyBody }

\* An answer of the detector: an HTTP response, or no response at all.
Http(status, data) == [kind |-> "http", status |-> status, data |-> data, code |-> ""]
NetErr(code) == [kind |-> "neterr", status |-> 0, data |-> Undef, code |-> code]
NoReply == [kind |-> "none", status |-> 0, data |-> Undef, code |-> ""]
Replies ==
  {Http(st, d) : st \in {200, 401}, d \in Payloads} \cup {NetErr("ECONNREFUSED")}
ConcReplies ==
  {Http(200, Obj([ai_score |-> Num((9 * ONE) \div 10)])), NetErr("ECONNREFUSED")}

\* What the self-fetch of the published URL gets back.
SelfFetchOutcomes == {Http(200, Undef), Http(404, Undef), NetErr("ECONNRESET")}

(***************************************************************************)
(* State.                                                                  *)
(***************************************************************************)
VARIABLES
  variant,  \* the deployed revision of the handler
  apiKey,   \* TRUE iff WINSTON_API_KEY is set in the environment
  now,      \* Date.now()
  store,    \* uploadDir: generated filename -> owner and bytes written
  req       \* per request: position in the handler and what it did

vars == <<variant, apiKey, now, store, req>>

Name(ts, rnd, ext) == [ts |-> ts, rnd |-> rnd, ext |-> ext]
NoName == Name(0, -1, "")
Url(proto, name) == [proto |-> proto, file |-> name]
NoUrl == Url("", NoName)
NoResp == [status |-> 0, ai_score |-> Undef, label |-> Undef, version |-> Undef,
           raw |-> Undef]

NewReq ==
  [pc |-> "new", file |-> NoFile, name |-> NoName, url |-> NoUrl,
   selfFetch |-> Undef, sfCalls |-> 0, calls |-> 0, callUrl |-> NoUrl,
   reply |-> NoReply, resp |-> NoResp, trace |-> <<>>]

Init ==
  /\ variant \in Variants
  /\ apiKey \in BOOLEAN
  /\ now = 1
  /\ store = <<>>
  /\ req = [r \in Requests |-> NewReq]

\* res.json(...) / res.status(...).json(...)
Respond(r, file, resp, steps) ==
  req' = [req EXCEPT ![r] = [@ EXCEPT !.pc = "done", !.file = file, !.resp = resp,
                                      !.trace = @ \o steps \o <<"respond">>]]

\* Date.now() + "-" + Math.random().toString(36).slice(2) + ext: digits, a
\* dash, characters of [0-9a-z], then an extension starting with a dot
\* (or empty), so two names are equal iff their three parts are.
mcpFilename(rnd, ext) == Name(now, rnd, ext)
\* crypto.randomBytes(16).toString("hex") + ".jpg", src/unnamed/part_000:64
restFilename(rnd) == Name(0, rnd, ".jpg")

\* (req.headers["x-forwarded-proto"] || "https").toString().split(",")[0].trim()
mcpProto(xfp) == IF xfp # "" THEN xfp ELSE "https"
\* makePublicUrl, src/unnamed/part_000:33; req.protocol is "http"
makePublicUrl(xfp, filename) == Url(IF xfp # "" THEN xfp ELSE "http", filename)

\* fs.writeFileSync(filePath, req.file.buffer): creates or replaces the file
writeFileSync(r, filename, buffer) ==
  store' = (filename :> [owner |-> r, buffer |-> buffer]) @@ store

\* The synchronous part of the handler up to axios.post / fetch being issued.
Published(r, file, filename, url, steps) ==
  /\ writeFileSync(r, filename, file.buffer)
  /\ req' = [req EXCEPT ![r] = [@ EXCEPT !.pc = "detect", !.file = file,
                                         !.name = filename, !.url = url,
                                         !.calls = @ + 1, !.callUrl = url,
                                         !.trace = @ \o steps \o <<"write", "detect">>]]

NoImageResp ==
  Resp(200, Num(HALF), Str(<<"Error: no image uploaded">>), BackendVersion,
       ErrorRaw("No image uploaded"))
NoKeyResp ==
  Resp(200, Num(HALF), Str(<<"Error: WINSTON_API_KEY missing">>), BackendVersion,
       ErrorRaw("WINSTON_API_KEY not set in environment"))
SizeValue(size) ==
  Obj([width |-> Num(size.width * ONE), height |-> Num(size.height * ONE),
       type |-> Str(<<size.type>>)])
TooSmallLabel(size) ==
  Str(<<"Error: image too small (", ToString(size.width), "x",
        ToString(size.height), "). Winston requires >=256x256.">>)

(***************************************************************************)
(* The handlers, from the arrival of the request to the first await.       *)
(***************************************************************************)
IsSmall(size) == size.width < 256 \/ size.height < 256

\* src/server.js:101-183
receivePick(r, file, xfp, rnd, wok) ==
  LET size == getImageSize2(file.buffer)
      ext == IF extname(file.originalname) # "" THEN extname(file.originalname)
             ELSE ".png"
      filename == mcpFilename(rnd, ext)
  IN
  /\ variant = "mcpPick"
  /\ IF ~file.present
       THEN Respond(r, file, NoImageResp, <<>>) /\ UNCHANGED store
     ELSE IF ~apiKey
       THEN Respond(r, file, NoKeyResp, <<>>) /\ UNCHANGED store
     ELSE IF size.k = "throw"
       THEN Respond(r, file, catchMcp(BufferRangeError), <<>>) /\ UNCHANGED store
     ELSE IF size.k = "null"
       THEN /\ Respond(r, file,
                       Resp(200, Num(HALF),
                            Str(<<"Error: uploaded file is not a PNG/JPEG image">>),
                            BackendVersion, ErrorRaw("NOT_AN_IMAGE")), <<>>)
            /\ UNCHANGED store
     ELSE IF IsSmall(size)
       THEN /\ Respond(r, file,
                       Resp(200, Num(HALF), TooSmallLabel(size), BackendVersion,
                            Obj([error |-> Str(<<"IMAGE_TOO_SMALL">>),
                                 width |-> Num(size.width * ONE),
                                 height |-> Num(size.height * ONE),
                                 type |-> Str(<<size.type>>)])), <<>>)
            /\ UNCHANGED store
     ELSE IF ~wok
       THEN Respond(r, file, catchMcp(WriteError), <<"accept", "writeFailed">>) /\ UNCHANGED store
     ELSE Published(r, file, filename, Url(mcpProto(xfp), filename), <<"accept">>)

\* src/server.js:385-484
receiveGate(r, file, xfp, rnd, wok) ==
  LET realType == detectImageType(file.buffer)
      size == getImageSize(file.buffer)
      ext == IF realType = "png" THEN ".png" ELSE ".jpg"
      filename == mcpFilename(rnd, ext)
  IN
  /\ variant = "mcpGate"
  /\ IF ~file.present
       THEN Respond(r, file, NoImageResp, <<>>) /\ UNCHANGED store
     ELSE IF ~apiKey
       THEN Respond(r, file, NoKeyResp, <<>>) /\ UNCHANGED store
     ELSE IF realType = "null"
       THEN /\ Respond(r, file,
                       Resp(200, Num(HALF),
                            Str(<<"Error: unknown image type. Use PNG or JPEG.">>),
                            BackendVersion, ErrorRaw("UNKNOWN_IMAGE_TYPE")), <<>>)
            /\ UNCHANGED store
     ELSE IF realType = "webp"
       THEN /\ Respond(r, file,
                       Resp(200, Num(HALF),
                            Str(<<"Error: WEBP not supported. Convert to PNG/JPEG before upload.">>),
                            BackendVersion, ErrorRaw("WEBP_NOT_SUPPORTED")), <<>>)
            /\ UNCHANGED store
     ELSE IF size.k = "throw"
       THEN Respond(r, file, catchMcp(BufferRangeError), <<>>) /\ UNCHANGED store
     ELSE IF size.k = "null"
       THEN /\ Respond(r, file,
                       Resp(200, Num(HALF),
                            Str(<<"Error: could not read image dimensions (type=",
                                  realType, "). Use PNG/JPEG.">>),
                            BackendVersion,
                            Obj([error |-> Str(<<"CANNOT_READ_DIMENSIONS">>),
                                 type |-> Str(<<realType>>)])), <<>>)
            /\ UNCHANGED store
     ELSE IF IsSmall(size)
       THEN /\ Respond(r, file,
                       Resp(200, Num(HALF), TooSmallLabel(size), BackendVersion,
                            Obj([error |-> Str(<<"IMAGE_TOO_SMALL">>),
                                 width |-> Num(size.width * ONE),
                                 height |-> Num(size.height * ONE),
                                 type |-> Str(<<size.type>>)])), <<>>)
            /\ UNCHANGED store
     ELSE IF ~wok
       THEN Respond(r, file, catchMcp(WriteError), <<"accept", "writeFailed">>) /\ UNCHANGED store
     ELSE Published(r, file, filename, Url(mcpProto(xfp), filename), <<"accept">>)

\* src/unnamed/part_000:257-316
receiveSelfFetch(r, file, xfp, rnd, wok) ==
  LET realType == sniffType(file.buffer)
      size == getImageSize2(file.buffer)
      sizeValue == IF size.k = "size" THEN SizeValue(size) ELSE Null
      ext == IF file.originalname = <<>> THEN ".jpg"
             ELSE IF extname(file.originalname) # "" THEN extname(file.originalname)
             ELSE IF realType = "png" THEN ".png" ELSE ".jpg"
      filename == mcpFilename(rnd, ext)
      imageUrl == Url(mcpProto(xfp), filename)
  IN
  /\ variant = "selfFetch"
  /\ IF ~file.present
       THEN Respond(r, file, NoImageResp, <<>>) /\ UNCHANGED store
     ELSE IF ~apiKey
       THEN Respond(r, file, NoKeyResp, <<>>) /\ UNCHANGED store
     ELSE IF size.k = "throw"
       THEN Respond(r, file, catchMcp(BufferRangeError), <<>>) /\ UNCHANGED store
     ELSE IF realType # "jpeg" /\ realType # "png"
       THEN /\ Respond(r, file,
                       Resp(200, Num(HALF),
                            Str(<<"Error: uploaded file is not a PNG/JPEG image (detected: ",
                                  realType, ")">>),
                            BackendVersion,
                            Obj([error |-> Str(<<"NOT_PNG_JPEG">>),
                                 detected |-> Str(<<realType>>),
                                 size |-> sizeValue])), <<>>)
            /\ UNCHANGED store
     ELSE IF size.k = "size" /\ IsSmall(size)
       THEN /\ Respond(r, file,
                       Resp(200, Num(HALF), TooSmallLabel(size), BackendVersion,
                            Obj([error |-> Str(<<"IMAGE_TOO_SMALL">>),
                                 size |-> sizeValue,
                                 realType |-> Str(<<realType>>)])), <<>>)
            /\ UNCHANGED store
     ELSE IF ~wok
       THEN Respond(r, file, catchMcp(WriteError), <<"accept", "writeFailed">>) /\ UNCHANGED store
     ELSE /\ writeFileSync(r, filename, file.buffer)
          /\ req' = [req EXCEPT ![r] =
                       [@ EXCEPT !.pc = "selfFetch", !.file = file,
                                 !.name = filename, !.url = imageUrl,
                                 !.sfCalls = @ + 1,
                                 !.trace = @ \o <<"accept", "write", "selfFetch">>]]

\* src/unnamed/part_000:55-70
receiveRest(r, file, xfp, rnd, wok) ==
  LET filename == restFilename(rnd) IN
  /\ variant = "rest"
  /\ IF ~file.present
       THEN /\ Respond(r, file,
                       Resp(400, Num(HALF), Str(<<"No image uploaded">>), Undef, Undef),
                       <<>>)
            /\ UNCHANGED store
     ELSE IF ~wok
       THEN Respond(r, file, catchRest(WriteError), <<"writeFailed">>) /\ UNCHANGED store
     ELSE Published(r, file, filename, makePublicUrl(xfp, filename), <<>>)

\* src/unnamed/part_001:27-40
receiveDirect(r, file) ==
  /\ variant = "direct"
  /\ UNCHANGED store
  /\ IF ~file.present
       THEN Respond(r, file, Resp(400, Undef, Undef, Undef, Undef), <<>>)
       ELSE req' = [req EXCEPT ![r] =
                      [@ EXCEPT !.pc = "detect", !.file = file, !.calls = @ + 1,
                                !.trace = @ \o <<"detect">>]]

Receive(C, F) ==
  \E r \in C, file \in F, xfp \in ForwardedProtos, rnd \in 0..(MaxRand - 1),
     wok \in BOOLEAN :
    /\ req[r].pc = "new"
    /\ \/ receivePick(r, file, xfp, rnd, wok)
       \/ receiveGate(r, file, xfp, rnd, wok)
       \/ receiveSelfFetch(r, file, xfp, rnd, wok)
       \/ receiveRest(r, file, xfp, rnd, wok)
       \/ receiveDirect(r, file)
    /\ UNCHANGED <<variant, apiKey, now>>

(***************************************************************************)
(* Self-Fetch Verifier, src/unnamed/part_000:229-255 and 316-342.          *)
(***************************************************************************)
\* The body express.static serves for a generated name.
Served(filename) ==
  IF filename \in DOMAIN store THEN store[filename].buffer ELSE <<>>

\* selfFetchCheck: never raises; a failed axios.get becomes {ok: false, error}
selfFetchCheck(url, outcome) ==
  IF outcome.kind = "http"
    THEN LET buf == IF outcome.status = 200 THEN Served(url.file) ELSE <<>> IN
         Obj([ok |-> Bool(outcome.status >= 200 /\ outcome.status < 300),
              status |-> Num(outcome.status * ONE),
              sniffedType |-> Str(<<sniffType(buf)>>),
              bytes |-> Num(Len(buf) * ONE)])
    ELSE Obj([ok |-> Bool(FALSE), error |-> Str(<<outcome.code>>)])

\* afterSelfFetch with a selfFetchCheck that lets a failed axios.get escape:
\* the error reaches the handler's catch block and no detector call is made.
afterSelfFetchRaising(r, outcome) ==
  /\ variant = "selfFetch"
  /\ req[r].pc = "selfFetch"
  /\ req' = [req EXCEPT ![r] =
               IF outcome.kind = "http"
                 THEN [@ EXCEPT !.pc = "detect",
                                !.selfFetch = selfFetchCheck(req[r].url, outcome),
                                !.calls = @ + 1, !.callUrl = req[r].url,
                                !.trace = @ \o <<"selfFetchDone", "detect">>]
                 ELSE [@ EXCEPT !.pc = "done",
                                !.resp = catchMcp(Err(0, Undef, outcome.code)),
                                !.trace = @ \o <<"respond">>]]
  /\ UNCHANGED <<variant, apiKey, now, store>>

\* `await selfFetchCheck(imageUrl)` resumes: axios.post is issued
afterSelfFetch(r, outcome) ==
  /\ variant = "selfFetch"
  /\ req[r].pc = "selfFetch"
  /\ req' = [req EXCEPT ![r] =
               [@ EXCEPT !.pc = "detect",
                         !.selfFetch = selfFetchCheck(req[r].url, outcome),
                         !.calls = @ + 1, !.callUrl = req[r].url,
                         !.trace = @ \o <<"selfFetchDone", "detect">>]]
  /\ UNCHANGED <<variant, apiKey, now, store>>

SelfFetchReturn(C) ==
  \E r \in C, outcome \in SelfFetchOutcomes : afterSelfFetch(r, outcome)

\* axios.get timeout: 15000
SelfFetchTimeout(C) ==
  \E r \in C : afterSelfFetch(r, NetErr("ECONNABORTED"))

(***************************************************************************)
(* Detection Client and Response Normalizer.                               *)
(***************************************************************************)
\* axios default validateStatus: a status outside 2xx rejects the promise
axiosResult(reply) ==
  IF reply.kind = "neterr" THEN Throw(Err(0, Undef, reply.code))
  ELSE IF reply.status >= 200 /\ reply.status < 300 THEN Ret(reply.data)
  ELSE Throw(Err(reply.status, reply.data, "ERR_BAD_REQUEST"))

\* resp.json().catch(() => null): an empty body is not JSON
fetchJson(data) == IF data = EmptyBody THEN Null ELSE data

GateDebug(file) ==
  LET size == getImageSize(file.buffer) IN
  Obj([realType |-> Str(<<detectImageType(file.buffer)>>),
       size |-> IF size.k = "size" THEN SizeValue(size) ELSE Null])
SelfFetchDebug(file, report) ==
  LET size == getImageSize2(file.buffer) IN
  Obj([realType |-> Str(<<sniffType(file.buffer)>>),
       size |-> IF size.k = "size" THEN SizeValue(size) ELSE Null,
       selfFetch |-> report])

\* The response of request r once the detector's answer (or the failure of
\* the call) is known.
detectResponse(r, reply) ==
  CASE variant = "mcpPick" ->
         LET a == axiosResult(reply) IN
         IF a.thrown THEN catchMcp(a.err) ELSE normalizePick(a.resp)
    [] variant = "mcpGate" ->
         LET a == axiosResult(reply)
             n == normalizeGate(a.resp, GateDebug(req[r].file))
         IN IF a.thrown THEN catchMcp(a.err)
            ELSE IF n.thrown THEN catchMcp(n.err) ELSE n.resp
    [] variant = "selfFetch" ->
         \* validateStatus: () => true
         IF reply.kind = "neterr" THEN catchMcp(Err(0, Undef, reply.code))
         ELSE normalizeSelfFetch(reply.data,
                                 SelfFetchDebug(req[r].file, req[r].selfFetch))
    [] variant = "rest" ->
         IF reply.kind = "neterr" THEN catchRest(Err(0, Undef, reply.code))
         ELSE normalizeRest(reply.status >= 200 /\ reply.status < 300,
                            reply.status, fetchJson(reply.data))
    [] variant = "direct" ->
         LET a == axiosResult(reply)
             n == normalizeDirect(a.resp)
         IN IF a.thrown THEN catchDirect(a.err)
            ELSE IF n.thrown THEN catchDirect(n.err) ELSE n.resp

afterDetect(r, reply) ==
  /\ req[r].pc = "detect"
  /\ req' = [req EXCEPT ![r] =
               [@ EXCEPT !.pc = "done", !.reply = reply,
                         !.resp = detectResponse(r, reply),
                         !.trace = @ \o <<"detectDone", "respond">>]]
  /\ UNCHANGED <<variant, apiKey, now, store>>

DetectReturn(C, R) == \E r \in C, reply \in R : afterDetect(r, reply)

\* axios.post timeout: 20000 (src/server.js:182, 483, src/unnamed/part_000:338);
\* fetch (part_000:40) and axios.post (part_001:31) are given no timeout.
HasDetectTimeout == variant \in {"mcpPick", "mcpGate", "selfFetch"}
DetectTimeout(C) ==
  \E r \in C : HasDetectTimeout /\ afterDetect(r, NetErr("ECONNABORTED"))

\* The fetch of part_000:40 is given no timeout by the code; the runtime
\* gives up on it by itself (undici's default headers timeout), which rejects
\* the promise.  axios (part_001:31) has no such default: its timeout is 0.
RuntimeTimeout(C) ==
  \E r \in C : variant = "rest" /\ afterDetect(r, NetErr("UND_ERR_HEADERS_TIMEOUT"))

\* Date.now() advances
Tick ==
  /\ now < MaxNow
  /\ now' = now + 1
  /\ UNCHANGED <<variant, apiKey, store, req>>

(***************************************************************************)
(* Specifications.  Spec: one request, every upload and every answer of    *)
(* the detector.  ConcSpec: two requests in flight at once.  FairSpec:     *)
(* ConcSpec where the timers fire, those set by the code and the default   *)
(* one of fetch; whether a request arrives and whether the remote side     *)
(* answers is up to the environment.                                       *)
(***************************************************************************)
One == {"r1"}

Next ==
  \/ Receive(One, Files)
  \/ SelfFetchReturn(One)
  \/ SelfFetchTimeout(One)
  \/ DetectReturn(One, Replies)
  \/ DetectTimeout(One)
  \/ RuntimeTimeout(One)
  \/ Tick

Spec == Init /\ [][Next]_vars

ConcNext ==
  \/ Receive(Requests, ConcFiles \cup {NoFile})
  \/ SelfFetchReturn(Requests)
  \/ SelfFetchTimeout(Requests)
  \/ DetectReturn(Requests, ConcReplies)
  \/ DetectTimeout(Requests)
  \/ RuntimeTimeout(Requests)
  \/ Tick

ConcSpec == Init /\ [][ConcNext]_vars

FairSpec ==
  /\ ConcSpec
  /\ \A r \in Requests :
       /\ WF_vars(SelfFetchTimeout({r}))
       /\ WF_vars(DetectTimeout({r}))
       /\ WF_vars(RuntimeTimeout({r}))

TypeOK ==
  /\ variant \in Variants
  /\ apiKey \in BOOLEAN
  /\ now \in 1..MaxNow
  /\ \A r \in Requests : req[r].pc \in {"new", "selfFetch", "detect", "done"}

(***************************************************************************)
(* Properties.                                                             *)
(***************************************************************************)
Done(r) == req[r].pc = "done"
Has(x, steps) == \E i \in 1..Len(steps) : steps[i] = x
InUnitInterval(v) == IsFinite(v) /\ v.n >= 0 /\ v.n <= ONE
Neutral(resp) == resp.status = 200 /\ resp.ai_score = Num(HALF) /\ IsString(resp.label)
Contains(label, tok) == IsString(label) /\ Has(tok, label.s)

\* The Validation Gate as the specification states it (first match wins).
GateVerdict(buffer) ==
  LET format == sniffType(buffer)
      size == getImageSize(buffer)
  IN IF format = "unknown" THEN "UNKNOWN_IMAGE_TYPE"
     ELSE IF format = "webp" THEN "FORMAT_NOT_SUPPORTED"
     ELSE IF size.k # "size" THEN "CANNOT_READ_DIMENSIONS"
     ELSE IF IsSmall(size) THEN "IMAGE_TOO_SMALL"
     ELSE "accept"

\* What the deployed handler decided for a request it has looked at: it
\* went on to publish or to call the detector, or it answered with a reject
\* reason.  The reasons are those of the gate policy; WEBP_NOT_SUPPORTED and
\* NOT_PNG_JPEG are the code's names for FORMAT_NOT_SUPPORTED and for the
\* two format rejections, and NOT_AN_IMAGE or an answer without a reason
\* count as a rejection without a named reason.
HandlerVerdict(r) ==
  LET error == OptGet(req[r].resp.raw, "error")
      detected == OptGet(req[r].resp.raw, "detected")
  IN
  IF Has("accept", req[r].trace) \/ Has("write", req[r].trace)
     \/ Has("detect", req[r].trace) THEN "accept"
  ELSE IF error = Str(<<"UNKNOWN_IMAGE_TYPE">>) THEN "UNKNOWN_IMAGE_TYPE"
  ELSE IF error = Str(<<"WEBP_NOT_SUPPORTED">>) THEN "FORMAT_NOT_SUPPORTED"
  ELSE IF error = Str(<<"NOT_PNG_JPEG">>) /\ detected = Str(<<"unknown">>)
    THEN "UNKNOWN_IMAGE_TYPE"
  ELSE IF error = Str(<<"NOT_PNG_JPEG">>) /\ detected = Str(<<"webp">>)
    THEN "FORMAT_NOT_SUPPORTED"
  ELSE IF error = Str(<<"CANNOT_READ_DIMENSIONS">>) THEN "CANNOT_READ_DIMENSIONS"
  ELSE IF error = Str(<<"IMAGE_TOO_SMALL">>) THEN "IMAGE_TOO_SMALL"
  ELSE "unnamed"

\* C1: the ai_score of the response to a request that carries a file is a
\* finite number in [0,1], whatever the detector answered, and it is 0.5
\* when the detector gave no payload to take a number from.
C1_AiScoreInUnitInterval ==
  \A r \in Requests :
    (Done(r) /\ req[r].file.present) =>
      /\ InUnitInterval(req[r].resp.ai_score)
      /\ req[r].reply.kind # "http" => req[r].resp.ai_score = Num(HALF)

\* C2: every exit path answers with status 200 and a body that has ai_score,
\* label, version and raw; on a failure path (no file, rejection, missing
\* credential, failed call, exception) ai_score is 0.5.
C2_Always200Envelope ==
  \A r \in Requests :
    Done(r) =>
      /\ req[r].resp.status = 200
      /\ req[r].resp.ai_score # Undef
      /\ req[r].resp.label # Undef
      /\ req[r].resp.version # Undef
      /\ req[r].resp.raw # Undef
      /\ req[r].reply.kind # "http" => req[r].resp.ai_score = Num(HALF)

\* C3: once the gate is reached (a file, a credential) the handler accepts
\* exactly the uploads the gate policy accepts, so a png or jpeg whose
\* dimensions cannot be parsed is never accepted; a rejection that names one
\* of the policy's reasons names the first matching one, answers with
\* ai_score 0.5, and IMAGE_TOO_SMALL carries the measured width and height.
C3_GateFirstMatch ==
  \A r \in Requests :
    (req[r].pc # "new" /\ req[r].file.present /\ apiKey) =>
      LET verdict == GateVerdict(req[r].file.buffer)
          handler == HandlerVerdict(r)
          size == getImageSize(req[r].file.buffer)
          raw == req[r].resp.raw
          carried == IF Get(raw, "size") # Undef THEN Get(raw, "size") ELSE raw
      IN /\ (handler = "accept") = (verdict = "accept")
         /\ handler \notin {"accept", "unnamed"} => handler = verdict
         /\ (Done(r) /\ verdict # "accept") => req[r].resp.ai_score = Num(HALF)
         /\ (Done(r) /\ verdict = "IMAGE_TOO_SMALL") =>
              /\ Get(carried, "width") = Num(size.width * ONE)
              /\ Get(carried, "height") = Num(size.height * ONE)

\* C4: a request whose upload the gate does not accept writes no file,
\* issues no self-fetch and makes no call to the detector.
C4_RejectedHasNoEffect ==
  \A r \in Requests :
    (req[r].file.present /\ GateVerdict(req[r].file.buffer) # "accept") =>
      /\ req[r].name = NoName
      /\ \A n \in DOMAIN store : store[n].owner # r
      /\ req[r].sfCalls = 0
      /\ req[r].calls = 0

\* C5: without a configured credential a request that carries a file
\* issues no self-fetch and no detector call, and its answer has ai_score 0.5.
C5_MissingCredentialShortCircuits ==
  \A r \in Requests :
    (~apiKey /\ req[r].file.present) =>
      /\ req[r].sfCalls = 0
      /\ req[r].calls = 0
      /\ Done(r) => req[r].resp.ai_score = Num(HALF)

\* C6: whatever the self-fetch of the published URL returned, the detector
\* is then called once with that same publicUrl, the answer has status 200,
\* and two requests that differ only in the outcome of their self-fetch get
\* the same status, ai_score, label and version: the outcome shows in the
\* diagnostic part (raw) only.
C6_SelfFetchNeverBlocks ==
  /\ \A r \in Requests :
       (req[r].sfCalls > 0 /\ req[r].pc # "selfFetch") =>
         /\ req[r].calls = 1
         /\ req[r].callUrl = req[r].url
         /\ req[r].callUrl.file = req[r].name
         /\ Get(Get(req[r].resp.raw, "debug"), "selfFetch") \in {Undef, req[r].selfFetch}
         /\ Done(r) => req[r].resp.status = 200
  /\ \A r1, r2 \in Requests :
       (Done(r1) /\ Done(r2) /\ req[r1].sfCalls > 0 /\ req[r2].sfCalls > 0
          /\ req[r1].file = req[r2].file /\ req[r1].reply = req[r2].reply) =>
         /\ req[r1].resp.status = req[r2].resp.status
         /\ req[r1].resp.ai_score = req[r2].resp.ai_score
         /\ req[r1].resp.label = req[r2].resp.label
         /\ req[r1].resp.version = req[r2].resp.version

\* Two finished requests with the same answer of the detector, one whose
\* self-fetch succeeded and one whose self-fetch failed without a response.
C6_Witness ==
  /\ Done("r1") /\ Done("r2")
  /\ req["r1"].reply = req["r2"].reply
  /\ req["r1"].reply.kind = "http"
  /\ Get(req["r1"].selfFetch, "ok") = Bool(TRUE)
  /\ Get(req["r2"].selfFetch, "ok") = Bool(FALSE)
  /\ Get(req["r2"].selfFetch, "error") # Undef
  /\ req["r2"].calls = 1

\* C7: no request calls the detector more than once; a request with a file
\* the gate accepts, a credential and a successful write calls it exactly
\* once; a call that failed without a response (refused, timed out) is
\* answered with the neutral envelope.
C7_SingleDetectionAttempt ==
  \A r \in Requests :
    /\ req[r].calls <= 1
    /\ (Done(r) /\ req[r].file.present /\ apiKey
          /\ GateVerdict(req[r].file.buffer) = "accept"
          /\ ~Has("writeFailed", req[r].trace)) => req[r].calls = 1
    /\ (Done(r) /\ req[r].reply.kind = "neterr") => Neutral(req[r].resp)

\* C8: two requests that reached the publish step wrote different generated
\* filenames, and the file behind the URL a request sent to the detector is
\* the one that request wrote.
C8_NoFilenameCollision ==
  /\ \A r1, r2 \in Requests :
       (r1 # r2 /\ req[r1].name # NoName /\ req[r2].name # NoName) =>
         req[r1].name # req[r2].name
  /\ \A r \in Requests :
       req[r].callUrl # NoUrl =>
         /\ req[r].callUrl.file \in DOMAIN store
         /\ store[req[r].callUrl.file].owner = r

\* C9: every request that arrived eventually gets its response, even when
\* the remote side never answers.
C9_EveryRequestCompletes ==
  \A r \in Requests : (req[r].pc # "new") ~> Done(r)

\* C10: when the payload the detector delivered (status 2xx) has an `error`
\* object with a message, the answer has ai_score 0.5 and a label that
\* contains the message, whatever else the payload carries.
C10_UpstreamErrorWins ==
  \A r \in Requests :
    LET reply == req[r].reply
        message == OptGet(OptGet(reply.data, "error"), "message")
    IN (Done(r) /\ reply.kind = "http" /\ reply.status = 200 /\ IsString(message)) =>
         /\ req[r].resp.ai_score = Num(HALF)
         /\ \A i \in 1..Len(message.s) : Contains(req[r].resp.label, message.s[i])

\* (C9, second part) a request waiting on the network leaves the handler
\* free to take up another request.
WaitingDoesNotBlock ==
  \A r1, r2 \in Requests :
    (r1 # r2 /\ req[r1].pc \in {"selfFetch", "detect"} /\ req[r2].pc = "new") =>
      ENABLED Receive({r2}, ConcFiles)

(***************************************************************************)
(* The Response Normalizer as the specification states it, for a payload   *)
(* the detector delivered with status 200 that carries its fields at the   *)
(* top level (no error, result, content or output member).                 *)
(***************************************************************************)
ScoreKeys == <<"ai_score", "ai_probability", "score", "probability">>
Flat(data) ==
  /\ data.t = "object"
  /\ \A k \in {"error", "result", "content", "output"} : Get(data, k) = Undef
\* the numbers the payload carries under the score keys
ScoresOf(data) ==
  {v \in {Get(data, ScoreKeys[i]) : i \in 1..Len(ScoreKeys)} : IsNumber(v)}
\* the stated rule: [0,1] as it is, (1,100] divided by 100, else unusable
Usable(v) == IsFinite(v) /\ v.n >= 0 /\ v.n <= 100 * ONE
SpecScore(v) ==
  IF ~Usable(v) THEN Num(HALF)
  ELSE IF v.n > ONE THEN Num(v.n \div 100) ELSE v
Delivered(r) ==
  Done(r) /\ req[r].reply.kind = "http" /\ req[r].reply.status = 200

\* C11: in the revision of src/server.js:101 (pickNumber), a payload that
\* carries one number under ai_score, ai_probability, score or probability
\* is answered with that number divided by 100 when it is in (1,100], with
\* the number itself when it is in [0,1], and with 0.5 when it is negative,
\* greater than 100 or not finite.
C11_ScoreNormalization ==
  \A r \in Requests :
    LET data == req[r].reply.data IN
    (Delivered(r) /\ variant = "mcpPick" /\ Flat(data)
       /\ Cardinality(ScoresOf(data)) = 1) =>
      \A v \in ScoresOf(data) : req[r].resp.ai_score = SpecScore(v)

\* (C11, the part that holds) a usable number is scaled as stated.
C11_UsableScoreScaled ==
  \A r \in Requests :
    LET data == req[r].reply.data IN
    (Delivered(r) /\ variant = "mcpPick" /\ Flat(data)
       /\ Cardinality(ScoresOf(data)) = 1) =>
      \A v \in ScoresOf(data) : Usable(v) => req[r].resp.ai_score = SpecScore(v)

\* Label derivation as stated: the explicit label, else is_ai / is_human,
\* else the threshold on the resolved score, else "Unknown".
HasLabel(data) == IsString(Get(data, "label")) /\ Get(data, "label").s # <<>>
ThresholdLabel(score) ==
  IF score.n * 100 >= 65 * ONE THEN Str(<<"AI">>)
  ELSE IF score.n * 100 <= 35 * ONE THEN Str(<<"Human">>)
  ELSE Str(<<"Mixed">>)
SpecLabel(data) ==
  LET usable == {v \in ScoresOf(data) : Usable(v)} IN
  IF HasLabel(data) THEN Get(data, "label")
  ELSE IF IsBoolean(Get(data, "is_ai"))
    THEN (IF Get(data, "is_ai").b THEN Str(<<"AI">>) ELSE Str(<<"Human">>))
  ELSE IF IsBoolean(Get(data, "is_human"))
    THEN (IF Get(data, "is_human").b THEN Str(<<"Human">>) ELSE Str(<<"AI">>))
  ELSE IF usable # {} THEN ThresholdLabel(SpecScore(CHOOSE v \in usable : TRUE))
  ELSE Str(<<"Unknown">>)

\* C12: in the revision of src/server.js:101, the label answered for a
\* payload is a non-empty string given by the first applicable rule: the
\* payload's label; else is_ai / is_human; else the threshold on the score
\* (>= 0.65 "AI", <= 0.35 "Human", otherwise "Mixed"); else "Unknown".
C12_LabelDerivation ==
  \A r \in Requests :
    LET data == req[r].reply.data IN
    (Delivered(r) /\ variant = "mcpPick" /\ Flat(data)
       /\ Cardinality(ScoresOf(data)) <= 1) =>
      /\ IsString(req[r].resp.label) /\ req[r].resp.label.s # <<>>
      /\ req[r].resp.label = SpecLabel(data)

\* (C12, the part that holds) the label is a non-empty string, and it is
\* the one the stated rules give whenever the threshold rule is not the
\* one that applies.
C12_LabelWithoutThreshold ==
  \A r \in Requests :
    LET data == req[r].reply.data IN
    (Delivered(r) /\ variant = "mcpPick" /\ Flat(data)
       /\ Cardinality(ScoresOf(data)) <= 1) =>
      /\ IsString(req[r].resp.label) /\ req[r].resp.label.s # <<>>
      /\ SpecLabel(data) \notin {ThresholdLabel(Num(n)) : n \in {0, HALF, ONE}}
           => req[r].resp.label = SpecLabel(data)

\* The steps of the pipeline in the stated order: validate ("accept"),
\* publish ("write"), self-check ("selfFetch" issued, "selfFetchDone"
\* returned), detect ("detect" issued, "detectDone" returned or failed),
\* normalize and answer ("respond").
Pipeline ==
  <<"accept", "write", "selfFetch", "selfFetchDone", "detect", "detectDone",
    "respond">>
IsPrefix(s, t) == Len(s) <= Len(t) /\ \A i \in 1..Len(s) : s[i] = t[i]
\* position of a step in the stated order; a failed write comes where the
\* write would have been
StepNo(x) ==
  IF x = "writeFailed" THEN 2
  ELSE CHOOSE i \in 1..Len(Pipeline) : Pipeline[i] = x
InOrder(steps) ==
  \A i, j \in 1..Len(steps) : i < j => StepNo(steps[i]) < StepNo(steps[j])

\* C13: in the revisions of src/unnamed/part_000:257 and src/server.js:385,
\* what a request with an accepted upload and a successful write has done
\* so far is an initial part of validate, publish, self-check, detect,
\* normalize: each step follows the previous one, none is skipped or
\* repeated.
C13_PipelineOrder ==
  \A r \in Requests :
    (variant \in {"selfFetch", "mcpGate"} /\ Has("accept", req[r].trace)
       /\ ~Has("writeFailed", req[r].trace)) =>
      IsPrefix(req[r].trace, Pipeline)

\* (C13, the part that holds) in every revision the steps a request takes
\* come in the stated order and none is repeated; the response of a request
\* that called the detector comes after the call returned or failed; and in
\* the revision of src/unnamed/part_000:257 no step is skipped.
C13_StepsInOrder ==
  \A r \in Requests :
    /\ InOrder(req[r].trace)
    /\ (Has("respond", req[r].trace) /\ Has("detect", req[r].trace)) =>
         Has("detectDone", req[r].trace)
    /\ (variant = "selfFetch" /\ Has("accept", req[r].trace)
          /\ ~Has("writeFailed", req[r].trace)) =>
         IsPrefix(req[r].trace, Pipeline)

\* An upload the sniffer of src/server.js:310 takes for a JPEG.
IsJpegUpload(file) == file.present /\ detectImageType(file.buffer) = "jpeg"
CannotRead(r) ==
  /\ Get(req[r].resp.raw, "error") = Str(<<"CANNOT_READ_DIMENSIONS">>)
  /\ req[r].resp.ai_score = Num(HALF)
  /\ req[r].calls = 0

\* C14: in the revision of src/server.js:385, a request with a credential
\* whose upload starts with the JPEG signature FF D8 and has no SOF0/SOF2
\* marker the scan can read the dimensions from is rejected with
\* CANNOT_READ_DIMENSIONS: the Dimension Extractor returns null for it and
\* does not raise, so the answer is not that of the catch block.
C14_JpegExtractorNeverRaises ==
  \A r \in Requests :
    (Done(r) /\ variant = "mcpGate" /\ apiKey /\ IsJpegUpload(req[r].file)
       /\ getImageSize(req[r].file.buffer).k # "size") =>
      /\ CannotRead(r)
      /\ ~Contains(req[r].resp.label, "Error contacting Winston: ")

\* (C14, the part that holds) a JPEG for which the scan runs off the end of
\* the buffer without meeting an FF byte near the end (no marker at all, a
\* segment length past the end) is rejected with CANNOT_READ_DIMENSIONS.
C14_NullWhenScanRunsOut ==
  \A r \in Requests :
    (Done(r) /\ variant = "mcpGate" /\ apiKey /\ IsJpegUpload(req[r].file)
       /\ getImageSize(req[r].file.buffer).k = "null") => CannotRead(r)

\* The extension that goes with the sniffed format of the bytes.
SniffedExt(buffer) == IF sniffType(buffer) = "png" THEN ".png" ELSE ".jpg"
PublishedAccepted(r) ==
  /\ req[r].name # NoName
  /\ GateVerdict(req[r].file.buffer) = "accept"

\* C15: in the revisions of src/unnamed/part_000:257 and src/server.js:385,
\* the name under which an accepted upload is stored, and the publicUrl,
\* end in the extension of the sniffed format (.png for png, .jpg for
\* jpeg), whatever the caller's filename is.
C15_ExtensionFromSniffedFormat ==
  \A r \in Requests :
    (variant \in {"selfFetch", "mcpGate"} /\ PublishedAccepted(r)) =>
      /\ req[r].name.ext = SniffedExt(req[r].file.buffer)
      /\ req[r].url.file.ext = SniffedExt(req[r].file.buffer)
      /\ req[r].name \in DOMAIN store

\* (C15, the part that holds) the revision of src/server.js:385 takes the
\* extension from the sniffed format.
C15_GateRevisionExtension ==
  \A r \in Requests :
    (variant = "mcpGate" /\ PublishedAccepted(r)) =>
      /\ req[r].name.ext = SniffedExt(req[r].file.buffer)
      /\ req[r].url.file.ext = SniffedExt(req[r].file.buffer)

====
